---- MODULE Spec2Model ----
(***************************************************************************)
(* A model of the two chart generators of the repository:                  *)
(*   scripts/perf/ab-chart.py            the A/B chart generator           *)
(*   docs/perf/charts/generate-charts.py the static chart generator        *)
(* One behaviour is one invocation of one of the two programs (prog),      *)
(* optionally followed by a second invocation with the same command line   *)
(* against the same file system.                                           *)
(***************************************************************************)
EXTENDS Integers, Sequences, FiniteSets, TLC

VARIABLES
    prog,        \* which script is run: "ab" or "static"
    runNo,       \* number of the current invocation (1 = first)
    args,        \* sys.argv[1:]
    mpl,         \* environment: matplotlib can be imported
    files,       \* environment: the regular files a.json and b.json
    dirs,        \* file system: directories and the files in them
    dirs0,       \* the directories as the current invocation found them
    pc,          \* position of the running script
    i,           \* ab-chart.py: index of the parsing loop (0-based)
    file_a, file_b, label_a, label_b, output_dir,
    data_a, data_b,
    out,         \* lines printed to stdout
    exc,         \* uncaught exception that ended the run, or PyNone
    status,      \* exit status, meaningful once pc = "done"
    ops,         \* file-system calls of the current run, in order
    labels, vals_a, vals_b,   \* ab-chart.py: the bars of the latency chart
    order,       \* generate-charts.py: the order the chart functions are called in
    k,           \* generate-charts.py: number of chart functions already called
    prev         \* summaries of the finished earlier invocations

vars == <<prog, runNo, args, mpl, files, dirs, dirs0, pc, i, file_a, file_b, label_a,
          label_b, output_dir, data_a, data_b, out, exc, status, ops, labels, vals_a,
          vals_b, order, k, prev>>

----------------------------------------------------------------------------
(* Bounds of the model *)

MaxArgs == 3
MaxRuns == 2

----------------------------------------------------------------------------
(* Values *)

PyNone == "<None>"

HelpFlags == {"--help", "-h"}
ValueFlags == {"--label-a", "--label-b", "--output-dir"}
Positionals == {"a.json", "b.json", "out", ""}
Tokens == HelpFlags \cup ValueFlags \cup {"--bogus"} \cup Positionals

\* str.startswith("-") on the tokens of the model
StartsWithDash(t) == t \in HelpFlags \cup ValueFlags \cup {"--bogus"}

\* Python truthiness of an optional string: None and "" are false
Falsy(s) == s = PyNone \/ s = ""

DefaultLabelA == "Variant A"
DefaultLabelB == "Variant B"
DefaultOutputDir == "./charts"

\* CHART_DIR of generate-charts.py: the directory of the script itself
CHART_DIR == "docs/perf/charts"

Paths == Tokens \cup {DefaultOutputDir, CHART_DIR}

\* Optional numbers: the result of dict.get
None == [some |-> FALSE, v |-> 0]
Some(x) == [some |-> TRUE, v |-> x]

\* "x or 0" of Python: None and 0 both give 0
OrZero(x) == IF x.some /\ x.v # 0 THEN x.v ELSE 0

----------------------------------------------------------------------------
(* Result documents (the JSON files produced by k6) *)

LatencyMetrics == <<"http_req_duration", "order_create_duration",
                    "stock_reserve_duration", "customer_create_duration">>
LatencyNames == <<"HTTP Overall", "Order Create", "Stock Reserve", "Customer Create">>
RateMetrics == {"iterations", "http_reqs", "http_req_failed", "mixed_workload_errors"}
MetricKeys == {LatencyMetrics[n] : n \in 1..Len(LatencyMetrics)} \cup RateMetrics

\* The stat each chart asks for
StatOf(m) == IF m \in RateMetrics THEN "rate" ELSE "p(95)"

\* One entry of the "metrics" object, as far as the lookups can tell:
\*   metric : the metric key is in "metrics"
\*   values : the metric record has a "values" record
\*   stats  : the stats the "values" record holds;  v : their value
Entry(metric, values, stats, v) ==
    [metric |-> metric, values |-> values, stats |-> stats, v |-> v]
Present(m, v) == Entry(TRUE, TRUE, {StatOf(m)}, v)
NoMetric == Entry(FALSE, FALSE, {}, 0)
NoValues == Entry(TRUE, FALSE, {}, 0)
NoStat == Entry(TRUE, TRUE, {"avg"}, 0)
MissingEntries == {NoMetric, NoValues, NoStat}

\* File contents.  shape: "object" (a JSON object), "nondict" (valid JSON that is
\* no object), "malformed" (no valid JSON), "missing" (no such file)
Doc(top, m) == [shape |-> "object", top |-> top, m |-> m]
NoDoc(shape) == [shape |-> shape, top |-> FALSE, m |-> [x \in MetricKeys |-> NoMetric]]

Pos == 5
FullDoc == Doc(TRUE, [x \in MetricKeys |-> Present(x, Pos)])
EmptyDoc == Doc(FALSE, [x \in MetricKeys |-> NoMetric])

\* A document equal to base everywhere except at key x
Except1(base, x, e) == Doc(TRUE, [y \in MetricKeys |-> IF y = x THEN e ELSE base[y]])
AllPresent == [x \in MetricKeys |-> Present(x, Pos)]
AllMissing == [x \in MetricKeys |-> NoMetric]

\* The documents of the wide data specification: every key present or every key
\* missing, with one key deviating in one of the ways a lookup can tell apart
DocsData ==
    {FullDoc, EmptyDoc, Doc(TRUE, AllMissing)}
    \cup {Except1(AllPresent, x, e) : x \in MetricKeys, e \in MissingEntries}
    \cup {Except1(AllPresent, x, Present(x, 0)) : x \in MetricKeys}
    \cup {Except1(AllMissing, x, Present(x, v)) : x \in MetricKeys, v \in {0, Pos}}

\* extract_metric: data.get("metrics", {}).get(metric_name, {}).get("values", {}).get(stat)
\* (called on "object" documents only; see Extracts)
extract_metric(data, metric_name, stat) ==
    LET metrics == IF data.top THEN data.m ELSE AllMissing
        metric == metrics[metric_name]
    IN  IF ~metric.metric THEN None
        ELSE IF ~metric.values THEN None
        ELSE IF stat \notin metric.stats THEN None
        ELSE Some(metric.v)

----------------------------------------------------------------------------
(* The file system *)

FilePaths == {"a.json", "b.json"}

EmptyFn == [x \in {} |-> x]
File(kind, legend, names, a, b) ==
    [kind |-> kind, legend |-> legend, labels |-> names, a |-> a, b |-> b]
Foreign == File("foreign", <<>>, <<>>, <<>>, <<>>)
Stale == File("stale", <<>>, <<>>, <<>>, <<>>)

NoDir == [exists |-> FALSE, f |-> EmptyFn]
Dir(f) == [exists |-> TRUE, f |-> f]

IsFile(fl, p) == p \in FilePaths /\ fl[p].shape # "missing"

\* open(path): PyNone when it succeeds, else the exception raised
OpenError(fl, ds, p) ==
    IF IsFile(fl, p) THEN PyNone
    ELSE IF ds[p].exists THEN "IsADirectoryError"
    ELSE "FileNotFoundError"

\* os.makedirs(path, exist_ok): PyNone when it succeeds, else the exception raised
MakedirsError(fl, ds, p, exist_ok) ==
    IF p = "" THEN "FileNotFoundError"
    ELSE IF IsFile(fl, p) THEN "FileExistsError"
    ELSE IF ds[p].exists /\ ~exist_ok THEN "FileExistsError"
    ELSE PyNone

\* the directories after a successful os.makedirs(path)
Makedirs(ds, p) == IF ds[p].exists THEN ds ELSE [ds EXCEPT ![p] = Dir(EmptyFn)]

\* the directories after plt.savefig(os.path.join(dir, name)) wrote content
Savefig(ds, d, name, content) ==
    [ds EXCEPT ![d] = Dir((name :> content) @@ ds[d].f)]

----------------------------------------------------------------------------
(* Output and termination *)

Line(text, arg) == [text |-> text, arg |-> arg]

\* print_usage()
print_usage(o) ==
    o \o << Line("Usage: python3 ab-chart.py <result-a.json> <result-b.json> [options]", <<>>),
            Line("", <<>>),
            Line("Options:", <<>>),
            Line("  --label-a NAME     Label for variant A (default: 'Variant A')", <<>>),
            Line("  --label-b NAME     Label for variant B (default: 'Variant B')", <<>>),
            Line("  --output-dir DIR   Directory for chart PNGs (default: ./charts)", <<>>),
            Line("  --help             Show this help message", <<>>) >>

\* the guidance printed when matplotlib cannot be imported
print_install_guidance(o) ==
    o \o << Line("matplotlib is not installed. Charts will not be generated.", <<>>),
            Line("", <<>>),
            Line("To install matplotlib:", <<>>),
            Line("  pip3 install matplotlib", <<>>),
            Line("  # or", <<>>),
            Line("  brew install python-matplotlib", <<>>),
            Line("", <<>>),
            Line("The A/B comparison report (ab-compare.sh) includes ASCII charts as a fallback.", <<>>) >>

Op(op, path) == [op |-> op, path |-> path]

\* sys.exit(n)
Exit(n) == pc' = "done" /\ status' = n /\ exc' = PyNone

\* an exception nobody catches: the interpreter prints a traceback and exits 1
Raise(e) == pc' = "done" /\ status' = 1 /\ exc' = e

\* args[n] of the code (0-based)
Arg(n) == args[n + 1]

----------------------------------------------------------------------------
(* ab-chart.py: argument parsing (main, the while loop) *)

Env == <<prog, runNo, args, mpl, files, dirs0, order, k, prev>>
Locals == <<file_a, file_b, label_a, label_b, output_dir>>
Loaded == <<data_a, data_b>>
Bars == <<labels, vals_a, vals_b>>

Parsing == prog = "ab" /\ pc = "parse" /\ i < Len(args)

\* Branch with the "-h" spelling of the help flag forgotten
BranchNoShortHelp(t) ==
    IF t = "--help" THEN "help"
    ELSE IF t = "--label-a" THEN "label_a"
    ELSE IF t = "--label-b" THEN "label_b"
    ELSE IF t = "--output-dir" THEN "output_dir"
    ELSE IF ~StartsWithDash(t) THEN "positional"
    ELSE "unknown"

\* Branch without the test for a leading dash: every other token is a positional
BranchNoDashTest(t) ==
    IF t = "--help" \/ t = "-h" THEN "help"
    ELSE IF t = "--label-a" THEN "label_a"
    ELSE IF t = "--label-b" THEN "label_b"
    ELSE IF t = "--output-dir" THEN "output_dir"
    ELSE "positional"

\* the branch of the if/elif chain that a token takes
Branch(t) ==
    IF t = "--help" \/ t = "-h" THEN "help"
    ELSE IF t = "--label-a" THEN "label_a"
    ELSE IF t = "--label-b" THEN "label_b"
    ELSE IF t = "--output-dir" THEN "output_dir"
    ELSE IF ~StartsWithDash(t) THEN "positional"
    ELSE "unknown"

\* if args[i] == "--help" or args[i] == "-h"
ParseHelp ==
    /\ Parsing
    /\ Branch(Arg(i)) = "help"
    /\ out' = print_usage(out)
    /\ Exit(0)
    /\ UNCHANGED <<Env, Locals, Loaded, Bars, i, dirs, ops>>

\* args[i + 1] of a value-taking option: IndexError when the option is the last token
HasValue == i + 1 < Len(args)

\* elif args[i] == "--label-a"
ParseLabelA ==
    /\ Parsing
    /\ Branch(Arg(i)) = "label_a"
    /\ IF HasValue
       THEN /\ label_a' = Arg(i + 1)
            /\ i' = i + 2
            /\ UNCHANGED <<pc, status, exc>>
       ELSE /\ Raise("IndexError")
            /\ UNCHANGED <<label_a, i>>
    /\ UNCHANGED <<Env, file_a, file_b, label_b, output_dir, Loaded, Bars, out, dirs, ops>>

\* elif args[i] == "--label-b"
ParseLabelB ==
    /\ Parsing
    /\ Branch(Arg(i)) = "label_b"
    /\ IF HasValue
       THEN /\ label_b' = Arg(i + 1)
            /\ i' = i + 2
            /\ UNCHANGED <<pc, status, exc>>
       ELSE /\ Raise("IndexError")
            /\ UNCHANGED <<label_b, i>>
    /\ UNCHANGED <<Env, file_a, file_b, label_a, output_dir, Loaded, Bars, out, dirs, ops>>

\* elif args[i] == "--output-dir"
ParseOutputDir ==
    /\ Parsing
    /\ Branch(Arg(i)) = "output_dir"
    /\ IF HasValue
       THEN /\ output_dir' = Arg(i + 1)
            /\ i' = i + 2
            /\ UNCHANGED <<pc, status, exc>>
       ELSE /\ Raise("IndexError")
            /\ UNCHANGED <<output_dir, i>>
    /\ UNCHANGED <<Env, file_a, file_b, label_a, label_b, Loaded, Bars, out, dirs, ops>>

\* elif not args[i].startswith("-"): the first two positionals are the files,
\* further ones are ignored
ParsePositional ==
    /\ Parsing
    /\ Branch(Arg(i)) = "positional"
    /\ IF file_a = PyNone
       THEN file_a' = Arg(i) /\ UNCHANGED file_b
       ELSE IF file_b = PyNone
       THEN file_b' = Arg(i) /\ UNCHANGED file_a
       ELSE UNCHANGED <<file_a, file_b>>
    /\ i' = i + 1
    /\ UNCHANGED <<Env, label_a, label_b, output_dir, Loaded, Bars, out, dirs, ops,
                   pc, status, exc>>

\* else: print(f"Unknown option: {args[i]}"); sys.exit(1)
ParseUnknown ==
    /\ Parsing
    /\ Branch(Arg(i)) = "unknown"
    /\ out' = Append(out, Line("Unknown option: ", <<Arg(i)>>))
    /\ Exit(1)
    /\ UNCHANGED <<Env, Locals, Loaded, Bars, i, dirs, ops>>

\* if not file_a or not file_b  (after the loop)
FilesGiven(a, b) == ~Falsy(a) /\ ~Falsy(b)

CheckFiles ==
    /\ prog = "ab" /\ pc = "parse" /\ i >= Len(args)
    /\ IF FilesGiven(file_a, file_b)
       THEN /\ pc' = "import"
            /\ UNCHANGED <<out, status, exc>>
       ELSE /\ out' = print_usage(Append(out,
                         Line("Error: Two result JSON files are required.", <<>>)))
            /\ Exit(1)
    /\ UNCHANGED <<Env, Locals, Loaded, Bars, i, dirs, ops>>

----------------------------------------------------------------------------
(* ab-chart.py: dependency check, loading, output directory *)

\* ImportMatplotlib without the try/except around the imports
ImportMatplotlibUncaught ==
    /\ prog = "ab" /\ pc = "import"
    /\ IF mpl
       THEN /\ pc' = "load_a"
            /\ UNCHANGED <<status, exc>>
       ELSE Raise("ModuleNotFoundError")
    /\ UNCHANGED <<Env, Locals, Loaded, Bars, i, dirs, ops, out>>

\* try: import matplotlib ... except ImportError: guidance; sys.exit(0)
ImportMatplotlib ==
    /\ prog = "ab" /\ pc = "import"
    /\ IF mpl
       THEN /\ pc' = "load_a"
            /\ UNCHANGED <<out, status, exc>>
       ELSE /\ out' = print_install_guidance(out)
            /\ Exit(0)
    /\ UNCHANGED <<Env, Locals, Loaded, Bars, i, dirs, ops>>

\* json.load(f): PyNone when it succeeds, else the exception raised
JsonLoadError(content) ==
    IF content.shape = "malformed" THEN "JSONDecodeError" ELSE PyNone

\* with open(path) as f: data = json.load(f):  the exception raised, or PyNone
LoadError(path) ==
    IF OpenError(files, dirs, path) # PyNone THEN OpenError(files, dirs, path)
    ELSE JsonLoadError(files[path])

\* LoadA with a failure of the load swallowed and an empty document used instead
LoadASwallow ==
    /\ prog = "ab" /\ pc = "load_a"
    /\ ops' = Append(ops, Op("open", file_a))
    /\ data_a' = IF LoadError(file_a) = PyNone THEN files[file_a] ELSE EmptyDoc
    /\ pc' = "load_b"
    /\ UNCHANGED <<Env, Locals, data_b, Bars, i, dirs, out, status, exc>>

\* with open(file_a) as f: data_a = json.load(f)
LoadA ==
    /\ prog = "ab" /\ pc = "load_a"
    /\ ops' = Append(ops, Op("open", file_a))
    /\ IF LoadError(file_a) = PyNone
       THEN /\ data_a' = files[file_a]
            /\ pc' = "load_b"
            /\ UNCHANGED <<status, exc>>
       ELSE /\ Raise(LoadError(file_a))
            /\ UNCHANGED data_a
    /\ UNCHANGED <<Env, Locals, data_b, Bars, i, dirs, out>>

\* with open(file_b) as f: data_b = json.load(f)
LoadB ==
    /\ prog = "ab" /\ pc = "load_b"
    /\ ops' = Append(ops, Op("open", file_b))
    /\ IF LoadError(file_b) = PyNone
       THEN /\ data_b' = files[file_b]
            /\ pc' = "makedirs"
            /\ UNCHANGED <<status, exc>>
       ELSE /\ Raise(LoadError(file_b))
            /\ UNCHANGED data_b
    /\ UNCHANGED <<Env, Locals, data_a, Bars, i, dirs, out>>

\* the call without exist_ok=True
ExistOkDefault == FALSE

\* the exist_ok argument of the call
ExistOk == TRUE

\* os.makedirs(output_dir, exist_ok=True)
MakeOutputDir ==
    /\ prog = "ab" /\ pc = "makedirs"
    /\ ops' = Append(ops, Op("makedirs", output_dir))
    /\ IF MakedirsError(files, dirs, output_dir, ExistOk) = PyNone
       THEN /\ dirs' = Makedirs(dirs, output_dir)
            /\ pc' = "chart1"
            /\ UNCHANGED <<status, exc>>
       ELSE /\ Raise(MakedirsError(files, dirs, output_dir, ExistOk))
            /\ UNCHANGED dirs
    /\ UNCHANGED <<Env, Locals, Loaded, Bars, i, out>>

----------------------------------------------------------------------------
(* ab-chart.py: the three charts *)

\* extract_metric calls data.get: a document that is no JSON object has no get
Extractable == data_a.shape = "object" /\ data_b.shape = "object"

\* the test with "and" for "or"
KeepBoth(p95_a, p95_b) == p95_a.some /\ p95_b.some

\* the test by truthiness ("if p95_a or p95_b"): a value of 0 does not count
KeepTruthy(p95_a, p95_b) == (p95_a.some /\ p95_a.v # 0) \/ (p95_b.some /\ p95_b.v # 0)

\* if p95_a is not None or p95_b is not None
Keep(p95_a, p95_b) == p95_a.some \/ p95_b.some

P95(data, n) == extract_metric(data, LatencyMetrics[n], "p(95)")

\* the indices of the operations the loop over metrics retains, in its order
Retained(da, db) ==
    LET Test(n) == Keep(P95(da, n), P95(db, n))
    IN  SelectSeq([n \in 1..Len(LatencyMetrics) |-> n], Test)

\* the value appended to vals_a / vals_b:  p95 or 0
BarValue(x) == OrZero(x)

LatencyFile == "p95-latency-comparison.png"
\* the file name of chart 1 copied to chart 2
ThroughputFileCopied == "p95-latency-comparison.png"
ThroughputFile == "throughput-comparison.png"
ErrorRateFile == "error-rate-comparison.png"
ABFiles == {LatencyFile, ThroughputFile, ErrorRateFile}

\* plt.savefig(os.path.join(output_dir, name)); print(f"  Chart saved: {chart_path}")
SaveChart(name, content) ==
    /\ dirs' = Savefig(dirs, output_dir, name, content)
    /\ ops' = Append(ops, Op("savefig", name))
    /\ out' = Append(out, Line("  Chart saved: ", <<output_dir, name>>))

\* Chart 1: P95 Latency Comparison
Chart1 ==
    /\ prog = "ab" /\ pc = "chart1"
    /\ IF ~Extractable
       THEN /\ Raise("AttributeError")
            /\ UNCHANGED <<Bars, dirs, ops, out>>
       ELSE LET keep == Retained(data_a, data_b)
                ls == [n \in 1..Len(keep) |-> LatencyNames[keep[n]]]
                va == [n \in 1..Len(keep) |-> BarValue(P95(data_a, keep[n]))]
                vb == [n \in 1..Len(keep) |-> BarValue(P95(data_b, keep[n]))]
            IN  /\ labels' = ls /\ vals_a' = va /\ vals_b' = vb
                /\ IF ls # <<>>
                   THEN SaveChart(LatencyFile,
                                  File("chart", <<label_a, label_b>>, ls, va, vb))
                   ELSE UNCHANGED <<dirs, ops, out>>
                /\ pc' = "chart2"
                /\ UNCHANGED <<status, exc>>
    /\ UNCHANGED <<Env, Locals, Loaded, i>>

\* extract_metric(data, name, "rate") or 0
Rate(data, name) == OrZero(extract_metric(data, name, "rate"))

\* Chart 2: Throughput Comparison
Chart2 ==
    /\ prog = "ab" /\ pc = "chart2"
    /\ SaveChart(ThroughputFile,
                 File("chart", <<label_a, label_b>>,
                      <<"Iterations per Second", "HTTP Requests per Second">>,
                      <<Rate(data_a, "iterations"), Rate(data_a, "http_reqs")>>,
                      <<Rate(data_b, "iterations"), Rate(data_b, "http_reqs")>>))
    /\ pc' = "chart3"
    /\ UNCHANGED <<Env, Locals, Loaded, Bars, i, status, exc>>

\* (extract_metric(data, name, "rate") or 0) * 100
Percent(data, name) == Rate(data, name) * 100

\* Chart 3: Error Rate Comparison, the closing line, and the end of main
Chart3 ==
    /\ prog = "ab" /\ pc = "chart3"
    /\ dirs' = Savefig(dirs, output_dir, ErrorRateFile,
                 File("chart", <<label_a, label_b>>,
                      <<"HTTP Failures", "Mixed Workload Errors">>,
                      <<Percent(data_a, "http_req_failed"),
                        Percent(data_a, "mixed_workload_errors")>>,
                      <<Percent(data_b, "http_req_failed"),
                        Percent(data_b, "mixed_workload_errors")>>))
    /\ ops' = Append(ops, Op("savefig", ErrorRateFile))
    /\ out' = out \o << Line("  Chart saved: ", <<output_dir, ErrorRateFile>>),
                        Line("All charts saved to: ", <<output_dir>>) >>
    /\ Exit(0)
    /\ UNCHANGED <<Env, Locals, Loaded, Bars, i>>

----------------------------------------------------------------------------
(* generate-charts.py *)

\* the chart functions, in the order __main__ calls them
MainOrder == <<"chart_throughput_scaling", "chart_latency_by_tier",
               "chart_cost_efficiency", "chart_cas_overhead",
               "chart_sustained_memory", "chart_order_create_scaling">>
ChartFns == {MainOrder[n] : n \in 1..Len(MainOrder)}

\* the orders of the six calls: every permutation of MainOrder
CallOrders == {o \in [1..Len(MainOrder) -> ChartFns] : \A fn \in ChartFns : \E n \in 1..Len(MainOrder) : o[n] = fn}

ScriptFile == "generate-charts.py"
StaticChart == File("static", <<>>, <<>>, <<>>, <<>>)

\* import matplotlib.pyplot as plt (top of the module): nobody catches its failure
StaticImport ==
    /\ prog = "static" /\ pc = "s_import"
    /\ IF mpl
       THEN pc' = "s_main" /\ UNCHANGED <<status, exc>>
       ELSE Raise("ModuleNotFoundError")
    /\ UNCHANGED <<Env, Locals, Loaded, Bars, i, dirs, ops, out>>

\* setup_style(); print('Generating performance charts...')
StaticStart ==
    /\ prog = "static" /\ pc = "s_main"
    /\ out' = Append(out, Line("Generating performance charts...", <<>>))
    /\ pc' = "s_charts"
    /\ UNCHANGED <<Env, Locals, Loaded, Bars, i, dirs, ops, status, exc>>

\* what every chart function ends with:
\* plt.savefig(os.path.join(CHART_DIR, name)); plt.close(); print('  ' + name)
ChartFn(fn, name) ==
    /\ prog = "static" /\ pc = "s_charts"
    /\ k < Len(order) /\ order[k + 1] = fn
    /\ dirs' = Savefig(dirs, CHART_DIR, name, StaticChart)
    /\ ops' = Append(ops, Op("savefig", name))
    /\ out' = Append(out, Line("  ", <<name>>))
    /\ k' = k + 1
    /\ UNCHANGED <<prog, runNo, args, mpl, files, dirs0, order, prev, Locals, Loaded,
                   Bars, i, pc, status, exc>>

chart_throughput_scaling == ChartFn("chart_throughput_scaling", "throughput-scaling.png")
chart_latency_by_tier == ChartFn("chart_latency_by_tier", "latency-by-tier.png")
chart_cost_efficiency == ChartFn("chart_cost_efficiency", "cost-efficiency.png")
\* chart_cas_overhead saving under the name of the chart before it
chart_cas_overhead_copied == ChartFn("chart_cas_overhead", "cost-efficiency.png")
chart_cas_overhead == ChartFn("chart_cas_overhead", "cas-overhead.png")
chart_sustained_memory == ChartFn("chart_sustained_memory", "sustained-memory.png")
chart_order_create_scaling == ChartFn("chart_order_create_scaling", "order-create-scaling.png")

StaticFiles == {"throughput-scaling.png", "latency-by-tier.png", "cost-efficiency.png",
                "cas-overhead.png", "sustained-memory.png", "order-create-scaling.png"}

\* print(f'Done. Charts saved to {CHART_DIR}/') and the end of the script
StaticDone ==
    /\ prog = "static" /\ pc = "s_charts"
    /\ k = Len(order)
    /\ out' = Append(out, Line("Done. Charts saved to ", <<CHART_DIR>>))
    /\ Exit(0)
    /\ UNCHANGED <<Env, Locals, Loaded, Bars, i, dirs, ops>>

----------------------------------------------------------------------------
(* Invocations *)

Summary == [status |-> status, exc |-> exc, out |-> out, ops |-> ops,
            dirs0 |-> dirs0, dirs |-> dirs]

\* the state of a script when it starts
Start ==
    /\ pc = IF prog = "ab" THEN "parse" ELSE "s_import"
    /\ i = 0
    /\ file_a = PyNone /\ file_b = PyNone
    /\ label_a = DefaultLabelA /\ label_b = DefaultLabelB
    /\ output_dir = DefaultOutputDir
    /\ data_a = NoDoc("missing") /\ data_b = NoDoc("missing")
    /\ labels = <<>> /\ vals_a = <<>> /\ vals_b = <<>>
    /\ out = <<>> /\ exc = PyNone /\ status = 0 /\ ops = <<>>
    /\ k = 0
    /\ dirs0 = dirs

\* the same command line is run again, on the file system the run before left
\* (a run that never touched the file system would only repeat itself)
Rerun ==
    /\ pc = "done"
    /\ runNo < MaxRuns
    /\ ops # <<>>
    /\ UNCHANGED <<prog, args, mpl, files, order, dirs>>
    /\ dirs0' = dirs
    /\ runNo' = runNo + 1
    /\ prev' = Append(prev, Summary)
    /\ pc' = IF prog = "ab" THEN "parse" ELSE "s_import"
    /\ i' = 0
    /\ file_a' = PyNone /\ file_b' = PyNone
    /\ label_a' = DefaultLabelA /\ label_b' = DefaultLabelB
    /\ output_dir' = DefaultOutputDir
    /\ data_a' = NoDoc("missing") /\ data_b' = NoDoc("missing")
    /\ labels' = <<>> /\ vals_a' = <<>> /\ vals_b' = <<>>
    /\ out' = <<>> /\ exc' = PyNone /\ status' = 0 /\ ops' = <<>>
    /\ k' = 0

\* directories before the first run: the script's own directory always exists; the
\* output directories are absent, or exist and hold an unrelated file and an old chart
NoDirs == [p \in Paths |-> IF p = CHART_DIR THEN Dir(ScriptFile :> Foreign) ELSE NoDir]
OldDir == Dir(("notes.txt" :> Foreign) @@ (ThroughputFile :> Stale))
OldDirs == [p \in Paths |-> IF p = CHART_DIR THEN Dir(ScriptFile :> Foreign)
                            ELSE IF p \in {DefaultOutputDir, "out"} THEN OldDir
                            ELSE NoDir]

\* all argument lists of at most n tokens
ArgLists(n) == UNION {[1..m -> Tokens] : m \in 0..n}

\* argument lists beyond the length bound that the claims speak about
ExtraArgs ==
    { <<"a.json", "b.json", "--output-dir", "out">>,
      <<"--output-dir", "out", "a.json", "b.json">>,
      <<"a.json", "--label-a", "--help", "b.json">>,
      <<"a.json", "b.json", "--label-a", "A", "--label-b", "B">> }

\* the file pairs (a.json, b.json) of the command-line specification
FilePairsCLI ==
    { <<FullDoc, FullDoc>>, <<EmptyDoc, FullDoc>>,
      <<NoDoc("missing"), FullDoc>>, <<NoDoc("malformed"), FullDoc>>,
      <<FullDoc, NoDoc("missing")>>, <<FullDoc, NoDoc("malformed")>>,
      <<NoDoc("nondict"), FullDoc>>, <<FullDoc, NoDoc("nondict")>> }

InitWith(argLists, filePairs) ==
    /\ prog \in {"ab", "static"}
    /\ runNo = 1 /\ prev = <<>>
    /\ mpl \in BOOLEAN
    /\ IF prog = "ab"
       THEN /\ args \in argLists
            /\ \E fp \in filePairs : files = ("a.json" :> fp[1]) @@ ("b.json" :> fp[2])
            /\ dirs \in {NoDirs, OldDirs}
            /\ order = MainOrder
       ELSE /\ args = <<>>
            /\ files = ("a.json" :> FullDoc) @@ ("b.json" :> FullDoc)
            /\ dirs = NoDirs
            /\ order \in CallOrders
    /\ Start

Init == InitWith(ArgLists(MaxArgs) \cup ExtraArgs, FilePairsCLI)

Next ==
    \/ ParseHelp \/ ParseLabelA \/ ParseLabelB \/ ParseOutputDir
    \/ ParsePositional \/ ParseUnknown \/ CheckFiles
    \/ ImportMatplotlib \/ LoadA \/ LoadB \/ MakeOutputDir
    \/ Chart1 \/ Chart2 \/ Chart3
    \/ StaticImport \/ StaticStart
    \/ chart_throughput_scaling \/ chart_latency_by_tier \/ chart_cost_efficiency
    \/ chart_cas_overhead \/ chart_sustained_memory \/ chart_order_create_scaling
    \/ StaticDone
    \/ Rerun

Spec == Init /\ [][Next]_vars

\* the data specification: few command lines, many documents
DataArgs ==
    { <<"a.json", "b.json">>,
      <<"a.json", "b.json", "--output-dir", "out">>,
      <<"b.json", "a.json", "--label-a", "A">>,
      <<"--label-b", "B", "a.json", "a.json">>,
      <<"a.json">>, <<"--help">>, <<"--bogus">>, <<"a.json", "b.json", "--output-dir">> }

FilePairsData ==
    (DocsData \X DocsData) \cup FilePairsCLI

InitData == InitWith(DataArgs, FilePairsData)

SpecData == InitData /\ [][Next]_vars

----------------------------------------------------------------------------
(* The command line, read without running the loop *)

\* the indices (0-based) at which a left-to-right reading of the tokens finds an
\* option or a positional: the token after a value-taking option is its value
RECURSIVE OptionPositions(_, _)
OptionPositions(a, n) ==
    IF n >= Len(a) THEN {}
    ELSE {n} \cup OptionPositions(a, IF a[n + 1] \in ValueFlags THEN n + 2 ELSE n + 1)

IsUnknownFlag(t) == StartsWithDash(t) /\ t \notin HelpFlags \cup ValueFlags

\* what ends the reading at position n: a help flag, an unknown flag, or a
\* value-taking option that is the last token
Stops(a, n) ==
    \/ a[n + 1] \in HelpFlags
    \/ IsUnknownFlag(a[n + 1])
    \/ a[n + 1] \in ValueFlags /\ n + 1 = Len(a)

StopPositions(a) == {n \in OptionPositions(a, 0) : Stops(a, n)}
FirstStop(a) == CHOOSE n \in StopPositions(a) : \A m \in StopPositions(a) : n <= m

HelpReached(a) == StopPositions(a) # {} /\ a[FirstStop(a) + 1] \in HelpFlags
UnknownReached(a) == StopPositions(a) # {} /\ IsUnknownFlag(a[FirstStop(a) + 1])
ValueMissing(a) == StopPositions(a) # {} /\ a[FirstStop(a) + 1] \in ValueFlags

\* the positional arguments, in order
PositionalArgs(a) ==
    LET IsPos(n) == n - 1 \in OptionPositions(a, 0) /\ ~StartsWithDash(a[n])
    IN  SelectSeq([n \in 1..Len(a) |-> n], IsPos)

\* a command line that names two files and nothing that stops the reading
TwoFilesGiven(a) ==
    /\ StopPositions(a) = {}
    /\ Len(PositionalArgs(a)) >= 2
    /\ a[PositionalArgs(a)[1]] # "" /\ a[PositionalArgs(a)[2]] # ""

AbDone == prog = "ab" /\ pc = "done"
UsagePrinted == \E n \in 1..Len(out) : SubSeq(out, n, Len(out)) = print_usage(<<>>)
NothingCreated == ops = <<>> /\ dirs = dirs0

----------------------------------------------------------------------------
(* C1: --help *)

\* C1 as stated: whenever --help or -h appears anywhere in the argument list, the
\* run prints the usage text and exits with status 0.
C1HelpAnywhere ==
    (AbDone /\ \E n \in 1..Len(args) : args[n] \in HelpFlags)
        => (status = 0 /\ exc = PyNone /\ out = print_usage(<<>>))

\* C1 amended: when --help or -h is the first token that stops the left-to-right
\* reading (no unknown flag stands at an earlier option position, and the help
\* flag is not the value of the value-taking option before it), the run prints
\* exactly the usage text, exits 0 and touches no file; the run ends this way in
\* no other case.
C1HelpReached ==
    AbDone => (HelpReached(args)
                  <=> (status = 0 /\ exc = PyNone /\ out = print_usage(<<>>)
                       /\ NothingCreated))

\* C1 witness: a help flag behind an option with its value and a file ended the run
C1Witness ==
    /\ AbDone /\ HelpReached(args) /\ status = 0 /\ out = print_usage(<<>>)
    /\ Len(args) = 3 /\ args[1] \in ValueFlags /\ args[3] = "-h"

----------------------------------------------------------------------------
(* C4: fewer than two files *)

\* C4: a command line without help flag and without unknown flag that holds at most
\* one positional argument ends with status 1 and the usage text, before any file is
\* touched.
C4TooFewFiles ==
    (/\ AbDone
     /\ \A n \in 1..Len(args) : args[n] \notin HelpFlags /\ ~IsUnknownFlag(args[n])
     /\ Len(PositionalArgs(args)) <= 1)
        => (status = 1 /\ UsagePrinted /\ NothingCreated)

----------------------------------------------------------------------------
(* C5: unknown flags *)

\* C5 as stated: whenever the argument list contains an unrecognized flag, the run
\* prints the usage message, exits with a non-zero status and creates nothing.
C5UnknownFlagAnywhere ==
    (AbDone /\ \E n \in 1..Len(args) : IsUnknownFlag(args[n]))
        => (status # 0 /\ UsagePrinted /\ NothingCreated)

\* C5 amended: when an unrecognized flag is the first token that stops the
\* left-to-right reading (no help flag at an earlier option position, the flag not
\* being the value of a value-taking option), the run prints the one line
\* "Unknown option: <flag>" (not the usage text), exits with status 1 and creates
\* no file or directory; the run ends this way in no other case.
C5UnknownReached ==
    AbDone => (UnknownReached(args)
                  <=> (/\ status = 1 /\ exc = PyNone /\ i < Len(args)
                       /\ out = <<Line("Unknown option: ", <<args[i + 1]>>)>>
                       /\ IsUnknownFlag(args[i + 1])
                       /\ NothingCreated))

\* C5 witness: an unknown flag behind two files ended the run
C5Witness ==
    /\ AbDone /\ UnknownReached(args) /\ status = 1
    /\ Len(args) = 3 /\ args[3] = "--bogus" /\ file_b = "b.json"

----------------------------------------------------------------------------
(* C6: the plotting library is absent *)

\* C6: with the plotting library absent, a run whose command line names two files
\* prints exactly the installation guidance and exits 0 with no input file opened,
\* no directory created and no file written; no file-system call is ever made
\* before the dependency check has passed, and the check comes after the
\* argument validation.
C6MissingDependency ==
    prog = "ab" =>
        /\ (pc = "done" /\ ~mpl /\ TwoFilesGiven(args))
              => (/\ status = 0 /\ exc = PyNone
                  /\ out = print_install_guidance(<<>>)
                  /\ NothingCreated)
        /\ pc \in {"parse", "import"} => NothingCreated
        /\ ops # <<>> => mpl
        /\ pc = "import" => (i >= Len(args) /\ FilesGiven(file_a, file_b))

\* C6 witness: a run with two files and an output directory ended at the
\* dependency check
C6Witness ==
    /\ AbDone /\ ~mpl /\ TwoFilesGiven(args)
    /\ out = print_install_guidance(<<>>) /\ status = 0
    /\ output_dir = "out" /\ file_a = "a.json" /\ file_b = "b.json"

----------------------------------------------------------------------------
(* C7: the outcomes of a run *)

\* the failures of the file system and of the input files, which the design
\* leaves unhandled
IOErrors == {"FileNotFoundError", "IsADirectoryError", "FileExistsError",
             "JSONDecodeError", "AttributeError"}

ChartsWritten ==
    /\ status = 0 /\ exc = PyNone
    /\ Len(out) >= 1 /\ out[Len(out)] = Line("All charts saved to: ", <<output_dir>>)

\* C7: apart from a fatal input or file-system failure, every run ends in one of
\* the documented outcomes: usage and 0 after --help, a message and 1 for missing
\* files or an unknown flag, the guidance and 0 without the plotting library, or
\* 0 after writing the charts; a value-taking option without value is no exception.
C7DocumentedOutcomes ==
    (AbDone /\ exc \notin IOErrors)
        => \/ status = 0 /\ exc = PyNone /\ out = print_usage(<<>>)
           \/ status = 1 /\ exc = PyNone /\ Len(out) >= 1
           \/ status = 0 /\ exc = PyNone /\ out = print_install_guidance(<<>>)
           \/ ChartsWritten

----------------------------------------------------------------------------
(* C10: both files are loaded before anything is written *)

Opened(n, path) == Len(ops) >= n /\ ops[n] = Op("open", path)
Writes == {n \in 1..Len(ops) : ops[n].op \in {"makedirs", "savefig"}}

\* C10: the output directory is created and charts are written only after both
\* input files were opened and parsed, file A first; when loading file A fails the
\* run ends fatally with file B never opened, and when loading file B fails it
\* ends fatally as well, in both cases with no directory created and no chart
\* written.
C10LoadBeforeWrite ==
    prog = "ab" =>
        /\ (Writes # {} \/ dirs # dirs0)
              => (/\ Opened(1, file_a) /\ Opened(2, file_b)
                  /\ \A n \in Writes : n > 2
                  /\ LoadError(file_a) = PyNone /\ LoadError(file_b) = PyNone
                  /\ data_a = files[file_a] /\ data_b = files[file_b])
        /\ (pc = "done" /\ ops # <<>> /\ LoadError(file_a) # PyNone)
              => (/\ ops = <<Op("open", file_a)>>
                  /\ status = 1 /\ exc = LoadError(file_a) /\ dirs = dirs0)
        /\ (pc = "done" /\ ops # <<>> /\ LoadError(file_a) = PyNone
               /\ LoadError(file_b) # PyNone)
              => (/\ ops = <<Op("open", file_a), Op("open", file_b)>>
                  /\ status = 1 /\ exc = LoadError(file_b) /\ dirs = dirs0)

\* C10 witness: file A was parsed, file B is malformed, and the run ended fatally
\* before the output directory was created
C10Witness ==
    /\ AbDone /\ exc = "JSONDecodeError"
    /\ ops = <<Op("open", "a.json"), Op("open", "b.json")>>
    /\ data_a = FullDoc /\ files["b.json"].shape = "malformed"
    /\ ~dirs[output_dir].exists

\* a second witness state of C10: the directory was created after both loads
C10WitnessCreated ==
    /\ prog = "ab" /\ pc = "chart1" /\ ~dirs0[output_dir].exists
    /\ dirs[output_dir].exists /\ Len(ops) = 3

----------------------------------------------------------------------------
(* C2: missing metric keys *)

\* the chart file and the bar label under which each metric is drawn
ChartFileOf(m) ==
    IF m \in {"iterations", "http_reqs"} THEN ThroughputFile
    ELSE IF m \in {"http_req_failed", "mixed_workload_errors"} THEN ErrorRateFile
    ELSE LatencyFile

BarLabel(m) ==
    CASE m = "iterations" -> "Iterations per Second"
      [] m = "http_reqs" -> "HTTP Requests per Second"
      [] m = "http_req_failed" -> "HTTP Failures"
      [] m = "mixed_workload_errors" -> "Mixed Workload Errors"
      [] OTHER -> LatencyNames[CHOOSE n \in 1..Len(LatencyMetrics) : LatencyMetrics[n] = m]

Sides == {"a", "b"}
DataOf(side) == IF side = "a" THEN data_a ELSE data_b
Other(side) == IF side = "a" THEN "b" ELSE "a"
Lookup(side, m) == extract_metric(DataOf(side), m, StatOf(m))

\* the chart of metric m is in the output directory and holds a bar of height h
\* for the given input file
HasBar(m, side, h) ==
    LET d == dirs[output_dir].f
    IN  /\ ChartFileOf(m) \in DOMAIN d
        /\ d[ChartFileOf(m)].kind = "chart"
        /\ \E j \in 1..Len(d[ChartFileOf(m)].labels) :
              /\ d[ChartFileOf(m)].labels[j] = BarLabel(m)
              /\ h = IF side = "a" THEN d[ChartFileOf(m)].a[j] ELSE d[ChartFileOf(m)].b[j]

Did(op, path) == \E n \in 1..Len(ops) : ops[n] = Op(op, path)

\* the run got as far as the charts with two JSON objects loaded
ChartsStarted ==
    /\ prog = "ab" /\ Did("makedirs", output_dir) /\ dirs[output_dir].exists
    /\ data_a.shape = "object" /\ data_b.shape = "object"

\* C2 as stated: for every metric whose key (or "values" record, or stat) is
\* missing from an input file, the chart of that metric is produced with the bar
\* of that file present and of height zero, for all eight metrics, also when the
\* key is missing from both files.
C2MissingKeyZeroBar ==
    (ChartsStarted /\ pc = "done")
        => \A m \in MetricKeys, side \in Sides :
              Lookup(side, m) = None => HasBar(m, side, 0)

\* C2 amended: a missing key (or "values" record, or stat) never raises: a run
\* that loaded two JSON objects and created the directory ends with status 0.  For
\* the four rate metrics the bar of the file is then present with height zero,
\* also when the key is missing from both files.  For the four latency metrics
\* the bar is present with height zero when the other file holds the value; when
\* the value is missing from both files the operation has no bar at all, and when
\* that is so for all four operations the latency chart is not written.
C2MissingKey ==
    (ChartsStarted /\ pc = "done")
        => /\ ChartsWritten
           /\ \A m \in MetricKeys, side \in Sides :
                 Lookup(side, m) = None =>
                    IF m \in RateMetrics \/ Lookup(Other(side), m).some
                    THEN HasBar(m, side, 0)
                    ELSE \A j \in 1..Len(labels) : labels[j] # BarLabel(m)
           /\ Did("savefig", LatencyFile)
                 <=> \E m \in MetricKeys \ RateMetrics, side \in Sides : Lookup(side, m).some

\* C2 witness: one key missing from file A alone and drawn as zero, another key
\* missing from both files
C2Witness ==
    /\ ChartsStarted /\ pc = "done" /\ ChartsWritten
    /\ Lookup("a", "order_create_duration") = None
    /\ Lookup("b", "order_create_duration").some
    /\ HasBar("order_create_duration", "a", 0)
    /\ Lookup("a", "http_reqs") = None /\ Lookup("b", "http_reqs") = None
    /\ HasBar("http_reqs", "b", 0)

\* a second witness state of C2: no latency value in either file, no latency chart
C2WitnessNoLatency ==
    /\ ChartsStarted /\ pc = "done" /\ ChartsWritten /\ runNo = 1
    /\ labels = <<>> /\ LatencyFile \notin DOMAIN dirs[output_dir].f

----------------------------------------------------------------------------
(* C3: two complete documents *)

\* the directory the command line specifies: the value of the last --output-dir
SpecifiedDir(a) ==
    LET at == {n \in OptionPositions(a, 0) : a[n + 1] = "--output-dir" /\ n + 1 < Len(a)}
    IN  IF at = {} THEN DefaultOutputDir
        ELSE a[(CHOOSE n \in at : \A m \in at : m <= n) + 2]

\* the file holds a JSON object with a value for all eight metrics
Complete(name) ==
    /\ IsFile(files, name) /\ files[name].shape = "object"
    /\ \A m \in MetricKeys : extract_metric(files[name], m, StatOf(m)).some

Saved == {n \in 1..Len(ops) : ops[n].op = "savefig"}

\* the three file names the run is to produce
ThreeCharts == {"p95-latency-comparison.png", "throughput-comparison.png",
                "error-rate-comparison.png"}

\* C3: with the plotting library available, two complete result documents and an
\* output directory that can be created, the run exits 0 having written exactly
\* the three chart files into the specified directory, and nothing else anywhere.
C3ThreeFiles ==
    (/\ AbDone /\ mpl /\ TwoFilesGiven(args)
     /\ Complete(args[PositionalArgs(args)[1]])
     /\ Complete(args[PositionalArgs(args)[2]])
     /\ SpecifiedDir(args) # "" /\ ~IsFile(files, SpecifiedDir(args)))
        => /\ status = 0 /\ exc = PyNone
           /\ output_dir = SpecifiedDir(args)
           /\ Cardinality(Saved) = 3
           /\ {ops[n].path : n \in Saved} = ThreeCharts
           /\ DOMAIN dirs[output_dir].f = DOMAIN dirs0[output_dir].f \cup ThreeCharts
           /\ \A name \in ThreeCharts : dirs[output_dir].f[name].kind = "chart"
           /\ \A name \in DOMAIN dirs0[output_dir].f \ ThreeCharts :
                 dirs[output_dir].f[name] = dirs0[output_dir].f[name]
           /\ \A p \in Paths \ {output_dir} : dirs[p] = dirs0[p]

\* C3 witness: a first run into a new directory "out" that ended with the three files
C3Witness ==
    /\ AbDone /\ mpl /\ runNo = 1 /\ status = 0
    /\ Complete(file_a) /\ Complete(file_b) /\ file_a # file_b
    /\ output_dir = "out" /\ ~dirs0["out"].exists
    /\ DOMAIN dirs["out"].f = ThreeCharts

----------------------------------------------------------------------------
(* C8: running twice *)

\* the file names a generator writes
Generated == IF prog = "ab" THEN ThreeCharts ELSE StaticFiles

\* the files of directory entry e that the generator does not name
Unnamed(e) == DOMAIN e.f \ Generated

\* C8: when a run that succeeded is repeated with the same command line and inputs
\* against the same directories, the repetition succeeds too (the existing
\* directory and files raise nothing), the directories hold the same chart files
\* afterwards as after the run before, and every file the generator does not name
\* is as it was before the first run; for both generators.
C8RunTwice ==
    (runNo >= 2 /\ pc = "done"
       /\ prev[runNo - 1].status = 0 /\ prev[runNo - 1].exc = PyNone)
        => /\ status = 0 /\ exc = PyNone
           /\ ops = prev[runNo - 1].ops
           /\ out = prev[runNo - 1].out
           /\ \A p \in Paths :
                 /\ dirs[p].exists = prev[runNo - 1].dirs[p].exists
                 /\ DOMAIN dirs[p].f = DOMAIN prev[runNo - 1].dirs[p].f
                 /\ \A name \in Unnamed(prev[1].dirs0[p]) :
                       /\ name \in DOMAIN dirs[p].f
                       /\ dirs[p].f[name] = prev[1].dirs0[p].f[name]

\* C8 witness: a second run of the A/B generator into a directory that held an
\* unrelated file before the first run and holds the charts of the first run
C8Witness ==
    /\ prog = "ab" /\ runNo = 2 /\ pc = "done" /\ ChartsWritten
    /\ prev[1].status = 0
    /\ "notes.txt" \in DOMAIN prev[1].dirs0[output_dir].f
    /\ ABFiles \subseteq DOMAIN dirs0[output_dir].f
    /\ Cardinality(Saved) = 3

\* a second witness state of C8: a second run of the static generator
C8WitnessStatic ==
    /\ prog = "static" /\ runNo = 2 /\ pc = "done" /\ status = 0
    /\ StaticFiles \subseteq DOMAIN dirs0[CHART_DIR].f
    /\ Cardinality(Saved) = 6

----------------------------------------------------------------------------
(* C9: the static generator *)

\* the file each chart function is to write
FileOfFn(fn) ==
    CASE fn = "chart_throughput_scaling" -> "throughput-scaling.png"
      [] fn = "chart_latency_by_tier" -> "latency-by-tier.png"
      [] fn = "chart_cost_efficiency" -> "cost-efficiency.png"
      [] fn = "chart_cas_overhead" -> "cas-overhead.png"
      [] fn = "chart_sustained_memory" -> "sustained-memory.png"
      [] fn = "chart_order_create_scaling" -> "order-create-scaling.png"

\* C9: the static generator writes exactly the six PNG files into its own
\* directory and nothing elsewhere; every chart function writes its own file only,
\* the line of a chart is printed right after the chart is written, the
\* completion message comes last, and whatever the order of the six calls the
\* directory ends up the same.
C9StaticCharts ==
    (prog = "static" /\ pc \in {"s_charts", "done"} /\ exc = PyNone)
        => /\ Len(ops) = k /\ Len(out) = 1 + k + (IF pc = "done" THEN 1 ELSE 0)
           /\ out[1] = Line("Generating performance charts...", <<>>)
           /\ \A n \in 1..k :
                 /\ ops[n] = Op("savefig", FileOfFn(order[n]))
                 /\ out[n + 1] = Line("  ", <<FileOfFn(order[n])>>)
           /\ DOMAIN dirs[CHART_DIR].f =
                 DOMAIN dirs0[CHART_DIR].f \cup {FileOfFn(order[n]) : n \in 1..k}
           /\ \A name \in Unnamed(dirs0[CHART_DIR]) :
                 dirs[CHART_DIR].f[name] = dirs0[CHART_DIR].f[name]
           /\ \A p \in Paths \ {CHART_DIR} : dirs[p] = dirs0[p]
           /\ pc = "done" =>
                 /\ k = 6 /\ status = 0
                 /\ {ops[n].path : n \in 1..k} = StaticFiles
                 /\ out[Len(out)] = Line("Done. Charts saved to ", <<CHART_DIR>>)
                 /\ dirs[CHART_DIR] =
                       Dir([name \in StaticFiles \cup {ScriptFile} |->
                              IF name = ScriptFile THEN Foreign ELSE StaticChart])

\* C9 witness: a finished first run that called the six functions in another
\* order than the script does
C9Witness ==
    /\ prog = "static" /\ pc = "done" /\ exc = PyNone /\ runNo = 1
    /\ order # MainOrder /\ order[1] = "chart_order_create_scaling"
    /\ Cardinality(DOMAIN dirs[CHART_DIR].f) = 7

----------------------------------------------------------------------------
(* C11: the operations of the latency chart *)

\* the four operations, in their fixed order: metric key and display name
FourOps == << [key |-> "http_req_duration", name |-> "HTTP Overall"],
              [key |-> "order_create_duration", name |-> "Order Create"],
              [key |-> "stock_reserve_duration", name |-> "Stock Reserve"],
              [key |-> "customer_create_duration", name |-> "Customer Create"] >>

\* the document holds a p(95) value for the key (a value of 0 is a value)
HasP95(data, key) ==
    /\ data.shape = "object" /\ data.top
    /\ data.m[key].metric /\ data.m[key].values /\ "p(95)" \in data.m[key].stats

\* the operations with a p(95) value in at least one of the two documents
OpsWithValue == {n \in 1..Len(FourOps) :
                    HasP95(data_a, FourOps[n].key) \/ HasP95(data_b, FourOps[n].key)}

\* the position of a display name in the fixed order (0: not an operation)
OpIndex(name) ==
    IF \E n \in 1..Len(FourOps) : FourOps[n].name = name
    THEN CHOOSE n \in 1..Len(FourOps) : FourOps[n].name = name
    ELSE 0

\* the latency chart of the run is past: chart 1 was done and raised nothing
LatencyDone == prog = "ab" /\ (pc \in {"chart2", "chart3"} \/ (pc = "done" /\ ChartsWritten))

SavedLine(name) == Line("  Chart saved: ", <<output_dir, name>>)
Printed(l) == \E n \in 1..Len(out) : out[n] = l

\* C11: the latency chart holds a bar pair for an operation exactly when its
\* p(95) value is present (0 included) in at least one input file; the retained
\* operations keep the fixed order; labels, A-values and B-values are always of
\* equal length; p95-latency-comparison.png is written and its path printed if
\* and only if an operation is retained, while the throughput and error-rate
\* charts are written in any case, so that a successful run writes two or three
\* files.
C11LatencyChart ==
    /\ Len(labels) = Len(vals_a) /\ Len(labels) = Len(vals_b)
    /\ LatencyDone =>
          /\ {OpIndex(labels[j]) : j \in 1..Len(labels)} = OpsWithValue
          /\ \A j \in 1..Len(labels), j2 \in 1..Len(labels) :
                j < j2 => OpIndex(labels[j]) < OpIndex(labels[j2])
          /\ Did("savefig", "p95-latency-comparison.png") <=> OpsWithValue # {}
          /\ Printed(SavedLine("p95-latency-comparison.png")) <=> OpsWithValue # {}
          /\ OpsWithValue # {} =>
                LET c == dirs[output_dir].f["p95-latency-comparison.png"]
                IN  c.kind = "chart" /\ c.labels = labels
                    /\ c.a = vals_a /\ c.b = vals_b
          /\ pc = "done" =>
                /\ Did("savefig", "throughput-comparison.png")
                /\ Did("savefig", "error-rate-comparison.png")
                /\ Printed(SavedLine("throughput-comparison.png"))
                /\ Printed(SavedLine("error-rate-comparison.png"))
                /\ Cardinality(Saved) = IF OpsWithValue = {} THEN 2 ELSE 3

\* C11 witness: a finished run that retained two of the four operations, the
\* first of them on a value of 0 that only file A holds
C11Witness ==
    /\ LatencyDone /\ pc = "done"
    /\ labels = <<"HTTP Overall", "Stock Reserve">>
    /\ HasP95(data_a, "http_req_duration") /\ ~HasP95(data_b, "http_req_duration")
    /\ vals_a = <<0, 0>> /\ vals_b[1] = 0 /\ vals_b[2] > 0
    /\ Cardinality(Saved) = 3

\* a second witness state of C11: no operation retained, two files written
C11WitnessTwoFiles ==
    /\ LatencyDone /\ pc = "done" /\ OpsWithValue = {}
    /\ Cardinality(Saved) = 2 /\ ~Did("savefig", "p95-latency-comparison.png")
    /\ data_a.top /\ data_b.top

====
